---- MODULE Spec2Model ----
(***************************************************************************)
(* PyBal: the LVS service state (pybal/ipvs.py), the monitor base class    *)
(* (pybal/monitor.py) and the DNS query monitor                            *)
(* (pybal/monitors/dnsquery.py), as state machines.                        *)
(*                                                                         *)
(* Python strings are sequences of one-character strings, so that the      *)
(* command formatting is computed character by character as ipvs.py does.  *)
(***************************************************************************)
EXTENDS Integers, Sequences, FiniteSets, TLC

VARIABLES
    svc,          \* LVSService instance: <<>> before construction, else service()
    DryRun,       \* IPVSManager.DryRun   (class attribute, process wide)
    Debug,        \* IPVSManager.Debug    (class attribute, process wide)
    ipServices,   \* BGPFailover associations registered by LVSService.__init__
    heap,         \* the set objects: own (held by the service only), caller (retained by the caller)
    servers,      \* LVSService.servers: a reference to a set object of the heap
    pooled,       \* Server.pooled of every server object
    cmdList,      \* the list last handed to IPVSManager.modifyState
    nCalls,       \* number of modifyState calls so far
    lastExec,     \* what the last modifyState call did with its list
    lastOp,       \* the last call made on the service and how it ended
    forwardingTable, \* the service's servers in the table of a kernel that takes every batch, by address
    monitor,      \* MonitoringProtocol instance: "none" before construction
    coordinator,  \* MonitoringProtocol.coordinator is truthy
    up,           \* MonitoringProtocol.up: "None", "True" or "False"
    active,       \* MonitoringProtocol.active
    firstCheck,   \* MonitoringProtocol.firstCheck
    shutdownTriggerID, \* MonitoringProtocol._shutdownTriggerID: <<>> is None
    triggers,     \* the reactor's registered 'before shutdown' triggers
    metrics,      \* the four counters and the status gauge for this instance's labels
    notified,     \* the calls received by the coordinator, in order
    monOp,        \* the last call made on the monitor and how it ended
    calls,        \* history: number of _resultUp and of _resultDown calls so far
    streak,       \* history: the current run of consecutive result calls of one kind
    failOnNXDOMAIN,    \* DNSQueryMonitoringProtocol.failOnNXDOMAIN
    DNSQueryDeferred,  \* DNSQueryMonitoringProtocol.DNSQueryDeferred: "None", "pending" or "called"
    checkStartTime,    \* DNSQueryMonitoringProtocol.checkStartTime: "None" or "set"
    request_duration_seconds, \* number of set() calls on the duration gauge, per result label
    nChecks,      \* number of check() calls so far
    suppressed,   \* cancelled Deferreds whose result has not come back from the resolver yet
    probeStopped, \* history: stop() has returned since the latest check() began
    dnsOp,        \* the last step of the DNS monitor and how it ended
    cmdOp,        \* the last IPVSManager command construction: its arguments and its result
    ipOp          \* the last IPPrefix construction or comparison: its arguments and its result

lvsVars == <<svc, DryRun, Debug, ipServices, heap, servers, pooled, cmdList,
             nCalls, lastExec, lastOp, forwardingTable>>
dnsVars == <<failOnNXDOMAIN, DNSQueryDeferred, checkStartTime,
             request_duration_seconds, nChecks, suppressed, probeStopped, dnsOp>>
baseVars == <<monitor, coordinator, up, active, firstCheck, shutdownTriggerID,
              triggers, metrics, notified, monOp, calls, streak>>
monVars == <<baseVars, dnsVars>>
vars == <<svc, DryRun, Debug, ipServices, heap, servers, pooled, cmdList,
          nCalls, lastExec, lastOp, forwardingTable, monitor, coordinator, up,
          active,
          firstCheck, shutdownTriggerID, triggers, metrics, notified, monOp,
          calls, streak, failOnNXDOMAIN, DNSQueryDeferred, checkStartTime,
          request_duration_seconds, nChecks, suppressed, probeStopped, dnsOp,
          cmdOp, ipOp>>
\* the results of the functions called on their own
pureVars == <<cmdOp, ipOp>>

\* Bounds of the model.
MaxCalls == 3
MaxResults == 4
MaxChecks == 3

(***************************************************************************)
(* Strings                                                                 *)
(***************************************************************************)
DigitChar(d) == <<"0", "1", "2", "3", "4", "5", "6", "7", "8", "9">>[d + 1]

RECURSIVE Digits(_)
Digits(n) == IF n < 10 THEN <<DigitChar(n)>>
             ELSE Digits(n \div 10) \o <<DigitChar(n % 10)>>

\* '%d' % n
DecStr(n) == IF n < 0 THEN <<"-">> \o Digits(-n) ELSE Digits(n)

\* c in s
Contains(s, c) == \E i \in 1..Len(s) : s[i] = c

\* sep.join(parts)
RECURSIVE Join(_, _)
Join(sep, parts) ==
    IF Len(parts) = 0 THEN <<>>
    ELSE IF Len(parts) = 1 THEN parts[1]
    ELSE parts[1] \o sep \o Join(sep, Tail(parts))

\* s.split(c)
RECURSIVE Split(_, _)
Split(s, c) ==
    IF ~Contains(s, c) THEN <<s>>
    ELSE LET i == CHOOSE k \in 1..Len(s) : s[k] = c /\ \A j \in 1..(k - 1) : s[j] # c
         IN  <<SubSeq(s, 1, i - 1)>> \o Split(SubSeq(s, i + 1, Len(s)), c)

DigitValue(ch) ==
    CASE ch = "0" -> 0 [] ch = "1" -> 1 [] ch = "2" -> 2 [] ch = "3" -> 3
      [] ch = "4" -> 4 [] ch = "5" -> 5 [] ch = "6" -> 6 [] ch = "7" -> 7
      [] ch = "8" -> 8 [] ch = "9" -> 9

\* int(s) of a string of decimal digits
RECURSIVE ParseDec(_)
ParseDec(s) ==
    IF Len(s) = 0 THEN 0
    ELSE 10 * ParseDec(SubSeq(s, 1, Len(s) - 1)) + DigitValue(s[Len(s)])

\* s.startswith(t), s.endswith(t)
StartsWith(s, t) == Len(s) >= Len(t) /\ SubSeq(s, 1, Len(t)) = t
EndsWith(s, t) == Len(s) >= Len(t) /\ SubSeq(s, Len(s) - Len(t) + 1, Len(s)) = t

\* int(s) succeeds (signs and blanks are not among the inputs)
IsDecimal(s) ==
    /\ Len(s) > 0
    /\ \A i \in 1..Len(s) : s[i] \in {"0", "1", "2", "3", "4", "5", "6", "7", "8", "9"}

HexDigits == <<"0", "1", "2", "3", "4", "5", "6", "7", "8", "9",
               "a", "b", "c", "d", "e", "f">>

HexValue(ch) == (CHOOSE i \in 1..Len(HexDigits) : HexDigits[i] = ch) - 1

\* int(s, 16) succeeds (lower case digits, no sign, no 0x)
IsHex(s) ==
    /\ Len(s) > 0
    /\ \A i \in 1..Len(s) : \E k \in 1..Len(HexDigits) : HexDigits[k] = s[i]

\* int(s, 16)
RECURSIVE ParseHex(_)
ParseHex(s) ==
    IF Len(s) = 0 THEN 0
    ELSE 16 * ParseHex(SubSeq(s, 1, Len(s) - 1)) + HexValue(s[Len(s)])

\* The orders in which iterating over a Python set can yield its members.
Orders(S) == {f \in [1..Cardinality(S) -> S] :
                 \A i, j \in 1..Cardinality(S) : i # j => f[i] # f[j]}

tcp == <<"t", "c", "p">>
udp == <<"u", "d", "p">>
rr == <<"r", "r">>
wlc == <<"w", "l", "c">>

(***************************************************************************)
(* Server objects (test/fixtures.py ServerStub).  Equality of servers is   *)
(* object identity: ServerStub defines __hash__ and no __eq__.  Servers 1  *)
(* and 2 are two objects with the same host, as the two ServerStub('c') of *)
(* testAssignServers.  weight and ip: <<>> is None.                        *)
(***************************************************************************)
Servers == {1, 2, 3}

ServerStub(s) ==
    CASE s = 1 -> [host |-> <<"c">>, ip |-> <<>>, weight |-> <<>>]
      [] s = 2 -> [host |-> <<"c">>, ip |-> <<>>, weight |-> <<>>]
      [] OTHER -> [host |-> <<"d">>, ip |-> <<"1", "0", ".", "0", ".", "0", ".", "3">>,
                   weight |-> <<25>>]

\* Faulty variant: servers compared by host, as an __eq__ on host would
ServerEqByHost(a, b) == ServerStub(a).host = ServerStub(b).host

\* a == b for two server objects: object identity
ServerEq(a, b) == a = b

\* server in S, A - B and A & B of Python sets of servers
Member(server, S) == \E x \in S : ServerEq(server, x)
Difference(A, B) == {a \in A : ~Member(a, B)}
Intersection(A, B) == {a \in A : Member(a, B)}

(***************************************************************************)
(* IPVSManager: command construction                                       *)
(***************************************************************************)
\* Faulty variant: every address is put in brackets
subCommandServiceAlwaysBrackets(service) ==
    LET protocol == IF service[1] = tcp THEN <<"-", "t">> ELSE <<"-", "u">>
    IN  protocol \o <<" ", "[">> \o service[2] \o <<"]", ":">> \o DecStr(service[3])

\* service is <<protocol, address, port, scheduler, ops>>
subCommandService(service) ==
    LET protocol == IF service[1] = tcp THEN <<"-", "t">> ELSE <<"-", "u">>
    IN  IF Contains(service[2], ":")
        THEN protocol \o <<" ", "[">> \o service[2] \o <<"]", ":">> \o DecStr(service[3])
        ELSE protocol \o <<" ">> \o service[2] \o <<":">> \o DecStr(service[3])

subCommandServer(server) ==
    <<"-", "r", " ">> \o (IF server.ip # <<>> THEN server.ip ELSE server.host)

commandRemoveService(service) ==
    <<"-", "D", " ">> \o subCommandService(service)

commandAddService(service) ==
    LET cmd == <<"-", "A", " ">> \o subCommandService(service)
    IN  IF Len(service) > 3
        THEN cmd \o <<" ", "-", "s", " ">> \o service[4]
                 \o (IF Len(service) > 4 /\ service[5] THEN <<" ", "-", "o">> ELSE <<>>)
        ELSE cmd

\* `if server.weight:` is true of every number but 0, false of None
WeightSuffix(server) ==
    IF server.weight # <<>> /\ server.weight[1] # 0
    THEN <<" ", "-", "w", " ">> \o DecStr(server.weight[1])
    ELSE <<>>

commandRemoveServer(service, server) ==
    Join(<<" ">>, << <<"-", "d">>, subCommandService(service), subCommandServer(server) >>)

commandAddServer(service, server) ==
    Join(<<" ">>, << <<"-", "a">>, subCommandService(service), subCommandServer(server) >>)
        \o WeightSuffix(server)

commandEditServer(service, server) ==
    Join(<<" ">>, << <<"-", "e">>, subCommandService(service), subCommandServer(server) >>)
        \o WeightSuffix(server)

(***************************************************************************)
(* Inputs of LVSService.__init__: service definitions and configurations.  *)
(* med: <<>> is "no bgp-med key" (getint raises KeyError).                 *)
(***************************************************************************)
SVC_PROTOS == {tcp, udp}

SVC_SCHEDULERS == {rr, <<"w", "r", "r">>, <<"l", "c">>, wlc, <<"l", "b", "l", "c">>,
                   <<"l", "b", "l", "c", "r">>, <<"d", "h">>, <<"s", "h">>,
                   <<"s", "e", "d">>, <<"n", "q">>}

localhost == <<"1", "2", "7", ".", "0", ".", "0", ".", "1">>

dryrunConfig == [dryrun |-> TRUE,  debug |-> FALSE, bgp |-> FALSE, med |-> <<>>]
medConfig    == [dryrun |-> FALSE, debug |-> FALSE, bgp |-> TRUE,  med |-> <<50>>]
debugConfig  == [dryrun |-> FALSE, debug |-> TRUE,  bgp |-> TRUE,  med |-> <<>>]

\* <<(protocol, ip, port, scheduler, ops), configuration>>
ConstructorArgs ==
    { << <<tcp, localhost, 80, rr, FALSE>>, dryrunConfig >>,
      << <<udp, localhost, 53, rr, TRUE>>, medConfig >>,
      << <<tcp, <<":", ":", "1">>, 443, wlc, FALSE>>, debugConfig >>,
      << <<<<"s", "c", "t", "p">>, localhost, 80, rr, FALSE>>, debugConfig >>,
      << <<tcp, localhost, 80, <<"x">>, FALSE>>, medConfig >>,
      << <<udp, localhost, 53, <<"x">>, TRUE>>, debugConfig >>,
      << <<tcp, localhost, 80, rr, TRUE>>, medConfig >> }

NoService == <<>>

\* The record of a call: its name, its arguments (def: the service tuple given
\* to __init__; server: 0 when the call takes none; new: the set given to
\* assignServers), the installed set before it (pre), the exception it raised
\* ("" when it returned), whether it repeats the call before it (again), and
\* what the call did, in the order of its statements (events): "servers" for
\* a write of self.servers, "modifyState" for the list being handed to
\* IPVSManager.modifyState, "pooled" for a write of server.pooled.
Op(name, def, server, new, pre, raised, again, events) ==
    [op |-> name, def |-> def, server |-> server, new |-> new, pre |-> pre,
     raised |-> raised, again |-> again, events |-> events]

\* self.servers, the set the reference points to
installedServers == heap[servers]

(***************************************************************************)
(* IPVSManager.modifyState: the list is printed under Debug, dropped under *)
(* DryRun, and otherwise piped to ipvsadm -R, whose exit status is not     *)
(* read: the table may or may not have taken the commands.  The call is    *)
(* taken to return: an IOError of the pipe itself is not modelled.         *)
(***************************************************************************)
modifyState(dry, cmds) ==
    /\ cmdList' = cmds
    /\ nCalls' = nCalls + 1
    /\ lastExec' \in (IF dry THEN {"dryrun"} ELSE {"applied", "failed"})

\* Faulty variant: the service is added before the previous one is removed
createServiceAddFirst(service, dry) ==
    modifyState(dry, <<commandAddService(service), commandRemoveService(service)>>)

\* LVSService.createService
createService(service, dry) ==
    modifyState(dry, <<commandRemoveService(service), commandAddService(service)>>)

\* Faulty variant: the check of ops against tcp is left out
InvalidServiceNoOpsCheck(protocol, scheduler, ops) ==
    protocol \notin SVC_PROTOS \/ scheduler \notin SVC_SCHEDULERS

\* The two checks of LVSService.__init__ that raise ValueError
InvalidService(protocol, scheduler, ops) ==
    \/ protocol \notin SVC_PROTOS \/ scheduler \notin SVC_SCHEDULERS
    \/ protocol = tcp /\ ops

\* LVSService.__init__(name, (protocol, ip, port, scheduler, ops), configuration)
LVSService_init(def, configuration) ==
    /\ nCalls < MaxCalls
    /\ IF InvalidService(def[1], def[4], def[5])
       THEN \* raise ValueError: the half-built object is dropped
            /\ lastOp' = Op("init", def, 0, {}, {}, "ValueError", FALSE, <<>>)
            /\ UNCHANGED <<svc, DryRun, Debug, ipServices, heap, servers, pooled,
                           cmdList, nCalls, lastExec>>
       ELSE /\ svc = NoService
            /\ svc' = def
            /\ heap' = [heap EXCEPT !.own = {}]
            /\ servers' = "own"
            /\ DryRun' = configuration.dryrun
            /\ Debug' = configuration.debug
            /\ ipServices' = IF configuration.bgp
                             THEN Append(ipServices, [ip |-> def[2], med |-> configuration.med])
                             ELSE ipServices
            /\ createService(def, configuration.dryrun)
            /\ lastOp' = Op("init", def, 0, {}, {}, "", FALSE,
                            <<"servers", "modifyState">>)
            /\ UNCHANGED pooled
    /\ UNCHANGED <<monVars, pureVars>>

(***************************************************************************)
(* LVSService.assignServers(newServers).  newServers is either a set the   *)
(* caller built for the call and does not keep (fresh), or the set object  *)
(* the caller retains (heap.caller); self.servers = newServers stores the  *)
(* reference, not a copy.                                                  *)
(***************************************************************************)
\* Faulty variant: the removes are put first
assignCommandsRemovesFirst(service, newServers, old) ==
    { [i \in 1..Len(removes) |-> commandRemoveServer(service, ServerStub(removes[i]))]
      \o [i \in 1..Len(adds) |-> commandAddServer(service, ServerStub(adds[i]))]
      \o [i \in 1..Len(edits) |-> commandEditServer(service, ServerStub(edits[i]))] :
         <<adds, edits, removes>> \in Orders(Difference(newServers, old))
                                      \X Orders(Intersection(newServers, old))
                                      \X Orders(Difference(old, newServers)) }

\* The lists cmdList can be: adds, then edits, then removes, each part in the
\* order the iteration over its set yields
assignCommands(service, newServers, old) ==
    { [i \in 1..Len(adds) |-> commandAddServer(service, ServerStub(adds[i]))]
      \o [i \in 1..Len(edits) |-> commandEditServer(service, ServerStub(edits[i]))]
      \o [i \in 1..Len(removes) |-> commandRemoveServer(service, ServerStub(removes[i]))] :
         <<adds, edits, removes>> \in Orders(Difference(newServers, old))
                                      \X Orders(Intersection(newServers, old))
                                      \X Orders(Difference(old, newServers)) }

\* Faulty variant: self.servers |= newServers
storeServersMerged(retained, newServers) ==
    /\ heap' = [heap EXCEPT ![servers] = @ \cup newServers]
    /\ UNCHANGED servers

\* Faulty variant: the assignment is left out
storeServersSkipped(retained, newServers) ==
    UNCHANGED <<heap, servers>>

\* self.servers = newServers
storeServers(retained, newServers) ==
    IF retained
    THEN /\ servers' = "caller"
         /\ heap' = [heap EXCEPT !.own = {}]
    ELSE /\ servers' = "own"
         /\ heap' = [heap EXCEPT !.own = newServers]

assignServers(retained, D) ==
    /\ svc # NoService
    /\ nCalls < MaxCalls
    /\ retained => D = heap.caller
    /\ \E cmds \in assignCommands(svc, D, installedServers) :
          modifyState(DryRun, cmds)
    /\ storeServers(retained, D)
    /\ lastOp' = Op("assignServers", <<>>, 0, D, installedServers, "",
                    lastOp.op = "assignServers" /\ lastOp.new = D,
                    <<"servers", "modifyState">>)
    /\ UNCHANGED <<svc, DryRun, Debug, ipServices, pooled>>
    /\ UNCHANGED <<monVars, pureVars>>

\* Faulty variant: addServer without the membership test: always an add command
addServerAlwaysAdds(server) ==
    /\ svc # NoService
    /\ nCalls < MaxCalls
    /\ modifyState(DryRun, <<commandAddServer(svc, ServerStub(server))>>)
    /\ heap' = [heap EXCEPT ![servers] = @ \cup {server}]
    /\ pooled' = [pooled EXCEPT ![server] = TRUE]
    /\ lastOp' = Op("addServer", <<>>, server, {}, installedServers, "", FALSE,
                    <<"servers", "modifyState", "pooled">>)
    /\ UNCHANGED <<svc, DryRun, Debug, ipServices, servers>>
    /\ UNCHANGED <<monVars, pureVars>>

\* LVSService.addServer(server)
addServer(server) ==
    /\ svc # NoService
    /\ nCalls < MaxCalls
    /\ modifyState(DryRun,
          IF ~Member(server, installedServers)
          THEN <<commandAddServer(svc, ServerStub(server))>>
          ELSE <<commandEditServer(svc, ServerStub(server))>>)
    /\ heap' = [heap EXCEPT ![servers] = @ \cup {server}]
    /\ pooled' = [pooled EXCEPT ![server] = TRUE]
    /\ lastOp' = Op("addServer", <<>>, server, {}, installedServers, "", FALSE,
                    <<"servers", "modifyState", "pooled">>)
    /\ UNCHANGED <<svc, DryRun, Debug, ipServices, servers>>
    /\ UNCHANGED <<monVars, pureVars>>

\* Faulty variant: removeServer with self.servers.discard(server): no KeyError
removeServerDiscard(server) ==
    /\ svc # NoService
    /\ nCalls < MaxCalls
    /\ heap' = [heap EXCEPT ![servers] = @ \ {server}]
    /\ pooled' = [pooled EXCEPT ![server] = FALSE]
    /\ modifyState(DryRun, <<commandRemoveServer(svc, ServerStub(server))>>)
    /\ lastOp' = Op("removeServer", <<>>, server, {}, installedServers, "", FALSE,
                            <<"servers", "pooled", "modifyState">>)
    /\ UNCHANGED <<svc, DryRun, Debug, ipServices, servers>>
    /\ UNCHANGED <<monVars, pureVars>>

\* Faulty variant: removeServer without server.pooled = False
removeServerKeepsFlag(server) ==
    /\ svc # NoService
    /\ nCalls < MaxCalls
    /\ IF ~Member(server, installedServers)
       THEN /\ lastOp' = Op("removeServer", <<>>, server, {}, installedServers,
                            "KeyError", FALSE, <<>>)
            /\ UNCHANGED <<heap, pooled, cmdList, nCalls, lastExec>>
       ELSE /\ heap' = [heap EXCEPT ![servers] = @ \ {server}]
            /\ UNCHANGED pooled
            /\ modifyState(DryRun, <<commandRemoveServer(svc, ServerStub(server))>>)
            /\ lastOp' = Op("removeServer", <<>>, server, {}, installedServers, "", FALSE,
                            <<"servers", "modifyState">>)
    /\ UNCHANGED <<svc, DryRun, Debug, ipServices, servers>>
    /\ UNCHANGED <<monVars, pureVars>>

\* LVSService.removeServer(server)
removeServer(server) ==
    /\ svc # NoService
    /\ nCalls < MaxCalls
    /\ IF ~Member(server, installedServers)
       THEN \* self.servers.remove(server) raises KeyError
            /\ lastOp' = Op("removeServer", <<>>, server, {}, installedServers,
                            "KeyError", FALSE, <<>>)
            /\ UNCHANGED <<heap, pooled, cmdList, nCalls, lastExec>>
       ELSE /\ heap' = [heap EXCEPT ![servers] = @ \ {server}]
            /\ pooled' = [pooled EXCEPT ![server] = FALSE]
            /\ modifyState(DryRun, <<commandRemoveServer(svc, ServerStub(server))>>)
            /\ lastOp' = Op("removeServer", <<>>, server, {}, installedServers, "", FALSE,
                            <<"servers", "pooled", "modifyState">>)
    /\ UNCHANGED <<svc, DryRun, Debug, ipServices, servers>>
    /\ UNCHANGED <<monVars, pureVars>>

\* The caller adds a server to the set object it retains, or removes one.
CallerModifiesSet(server) ==
    /\ nCalls < MaxCalls
    /\ heap' = [heap EXCEPT !.caller = IF server \in @ THEN @ \ {server}
                                                     ELSE @ \cup {server}]
    /\ lastOp' = Op("caller", <<>>, 0, {}, {}, "", FALSE, <<>>)
    /\ UNCHANGED <<svc, DryRun, Debug, ipServices, servers, pooled, cmdList,
                   nCalls, lastExec>>
    /\ UNCHANGED <<monVars, pureVars>>

(***************************************************************************)
(* The forwarding table of one service, as the server commands address it: *)
(* the set of the real-server addresses that follow -r.                    *)
(***************************************************************************)
\* 'a', 'e', 'd' for the server commands -a, -e, -d; 'A', 'D' for the service
\* commands -A, -D
Kind(cmd) == cmd[2]

\* the address a server command names: the word after -r
Address(cmd) == Split(cmd, " ")[5]

\* the table with the servers of S installed
Table(S) == {Address(commandRemoveServer(svc, ServerStub(s))) : s \in S}

\* the table after one server command: -a installs the address, -d withdraws
\* it, -e leaves the set of addresses as it is; -D withdraws the service with
\* all its servers, -A installs it with none
ApplyCommand(table, cmd) ==
    CASE Kind(cmd) = "a" -> table \cup {Address(cmd)}
      [] Kind(cmd) = "d" -> table \ {Address(cmd)}
      [] Kind(cmd) = "D" -> {}
      [] OTHER -> table

\* the table after the commands of a list, taken in order
RECURSIVE ApplyBatch(_, _)
ApplyBatch(table, cmds) ==
    IF cmds = <<>> THEN table
    ELSE ApplyBatch(ApplyCommand(table, Head(cmds)), Tail(cmds))

(***************************************************************************)
(* The executor that takes every batch: the call of modifyState the step   *)
(* made, if it made one, was not a dry run and did not fail, and the table *)
(* is what the commands of the list, applied in order, make of it.         *)
(***************************************************************************)
executor ==
    IF nCalls' = nCalls
    THEN UNCHANGED forwardingTable
    ELSE /\ lastExec' = "applied"
         /\ forwardingTable' = ApplyBatch(forwardingTable, cmdList')

LVSInit ==
    /\ svc = NoService
    /\ DryRun = TRUE
    /\ Debug = FALSE
    /\ ipServices = <<>>
    /\ heap = [own |-> {}, caller |-> {}]
    /\ servers = "own"
    /\ pooled = [s \in Servers |-> FALSE]
    /\ cmdList = <<>>
    /\ nCalls = 0
    /\ lastExec = "none"
    /\ forwardingTable = {}
    /\ lastOp = Op("none", <<>>, 0, {}, {}, "", FALSE, <<>>)

\* The table is followed in SpecTable only: elsewhere the executor may drop
\* or fail a batch, and the table is left out of account.
LVSNext ==
    \/ \E args \in ConstructorArgs :
          LVSService_init(args[1], args[2]) /\ UNCHANGED forwardingTable
    \/ \E D \in SUBSET Servers : assignServers(FALSE, D) /\ UNCHANGED forwardingTable
    \/ assignServers(TRUE, heap.caller) /\ UNCHANGED forwardingTable
    \/ \E server \in Servers : addServer(server) /\ UNCHANGED forwardingTable
    \/ \E server \in Servers : removeServer(server) /\ UNCHANGED forwardingTable
    \/ \E server \in Servers : CallerModifiesSet(server) /\ UNCHANGED forwardingTable

\* one service on which only addServer and removeServer are called
PoolNext ==
    \/ \E args \in ConstructorArgs :
          LVSService_init(args[1], args[2]) /\ UNCHANGED forwardingTable
    \/ \E server \in Servers : addServer(server) /\ UNCHANGED forwardingTable
    \/ \E server \in Servers : removeServer(server) /\ UNCHANGED forwardingTable

\* one service whose batches the executor all takes: __init__, assignServers,
\* addServer and removeServer
TableNext ==
    \/ \E args \in ConstructorArgs : LVSService_init(args[1], args[2]) /\ executor
    \/ \E D \in SUBSET Servers : assignServers(FALSE, D) /\ executor
    \/ \E server \in Servers : addServer(server) /\ executor
    \/ \E server \in Servers : removeServer(server) /\ executor

MonInit ==
    /\ monitor = "none"
    /\ coordinator = FALSE
    /\ up = "None"
    /\ active = FALSE
    /\ firstCheck = TRUE
    /\ shutdownTriggerID = <<>>
    /\ triggers = {}
    /\ metrics = [up_results_total |-> 0, down_results_total |-> 0,
                  up_transitions_total |-> 0, down_transitions_total |-> 0,
                  status |-> <<>>]
    /\ notified = <<>>
    /\ monOp = [op |-> "none", raised |-> ""]
    /\ calls = [up |-> 0, down |-> 0]
    /\ streak = [kind |-> "none", len |-> 0, notes |-> 0, trans |-> 0,
                 running |-> FALSE, edge |-> FALSE]

(***************************************************************************)
(* MonitoringProtocol (pybal/monitor.py)                                   *)
(***************************************************************************)
Reasons == {"None", "timeout"}

MonOp(name, raised) == [op |-> name, raised |-> raised]

\* MonitoringProtocol.__init__(coordinator, server, configuration, reactor)
MonitoringProtocol_init(coord) ==
    /\ coordinator' = coord
    /\ up' = "None"
    /\ active' = FALSE
    /\ firstCheck' = TRUE
    /\ shutdownTriggerID' = <<>>
    /\ monOp' = MonOp("init", "")
    /\ UNCHANGED <<triggers, metrics, notified, calls, streak>>
    /\ UNCHANGED <<lvsVars, pureVars>>

\* reactor.addSystemEventTrigger returns an id no registered trigger has
NewTriggerID == CHOOSE i \in 1..(Cardinality(triggers) + 1) : i \notin triggers

\* Faulty variant: run() without its assertion (re-entry registers again)
MonitoringProtocol_runWithoutAssert ==
    /\ active' = TRUE
    /\ shutdownTriggerID' = <<NewTriggerID>>
    /\ triggers' = triggers \cup {NewTriggerID}
    /\ monOp' = MonOp("run", "")
    /\ UNCHANGED <<monitor, coordinator, up, firstCheck, metrics, notified, calls, streak>>
    /\ UNCHANGED <<lvsVars, pureVars>>

\* MonitoringProtocol.run
MonitoringProtocol_run ==
    /\ IF active # FALSE
       THEN \* assert self.active is False
            /\ monOp' = MonOp("run", "AssertionError")
            /\ UNCHANGED <<active, shutdownTriggerID, triggers>>
       ELSE /\ active' = TRUE
            /\ shutdownTriggerID' = <<NewTriggerID>>
            /\ triggers' = triggers \cup {NewTriggerID}
            /\ monOp' = MonOp("run", "")
    /\ UNCHANGED <<monitor, coordinator, up, firstCheck, metrics, notified, calls, streak>>
    /\ UNCHANGED <<lvsVars, pureVars>>

\* Faulty variant: stop() that forgets to remove its shutdown trigger
MonitoringProtocol_stopKeepsTrigger ==
    /\ active' = FALSE
    /\ monOp' = MonOp("stop", "")
    /\ UNCHANGED <<triggers, shutdownTriggerID>>
    /\ UNCHANGED <<monitor, coordinator, up, firstCheck, metrics, notified, calls, streak>>
    /\ UNCHANGED <<lvsVars, pureVars>>

\* Faulty variant: stop() that also forgets the verdict (self.up = None)
MonitoringProtocol_stopResetsVerdict ==
    /\ active' = FALSE
    /\ IF shutdownTriggerID # <<>>
       THEN /\ triggers' = triggers \ {shutdownTriggerID[1]}
            /\ shutdownTriggerID' = <<>>
       ELSE UNCHANGED <<triggers, shutdownTriggerID>>
    /\ up' = "None"
    /\ monOp' = MonOp("stop", "")
    /\ UNCHANGED <<monitor, coordinator, firstCheck, metrics, notified, calls, streak>>
    /\ UNCHANGED <<lvsVars, pureVars>>

\* MonitoringProtocol.stop
MonitoringProtocol_stop ==
    /\ active' = FALSE
    /\ IF shutdownTriggerID # <<>>
       THEN /\ triggers' = triggers \ {shutdownTriggerID[1]}
            /\ shutdownTriggerID' = <<>>
       ELSE UNCHANGED <<triggers, shutdownTriggerID>>
    /\ monOp' = MonOp("stop", "")
    /\ UNCHANGED <<monitor, coordinator, up, firstCheck, metrics, notified, calls, streak>>
    /\ UNCHANGED <<lvsVars, pureVars>>

nResults == metrics.up_results_total + metrics.down_results_total

nResultCalls == calls.up + calls.down

\* Faulty variant: `self.active and (self.up is <previous> or self.firstCheck)`
stateChangeWhileActive(previous) == active /\ (up = previous \/ firstCheck)

\* Faulty variant: `self.up is <previous> or self.firstCheck`
stateChangeIgnoringActive(previous) == up = previous \/ firstCheck

\* Faulty variant: level triggered, `self.active or self.firstCheck`
stateChangeLevelTriggered(previous) == active \/ firstCheck

\* Faulty variant: `self.active and self.up is <previous>`
stateChangeWithoutFirstCheck(previous) == active /\ up = previous

\* `self.active and self.up is <previous> or self.firstCheck`
stateChange(previous) == (active /\ up = previous) \/ firstCheck

\* History of the run of consecutive result calls of one kind that the call
\* being made extends or begins: its length, the coordinator calls and the
\* transition counter increments it produced, whether the instance was active
\* at each of its calls, and whether it began at an edge (the verdict was the
\* opposite one, or no check had completed).
StreakAfter(kind, opposite) ==
    LET cont == streak.kind = kind
        old == IF cont THEN streak
               ELSE [kind |-> kind, len |-> 0, notes |-> 0, trans |-> 0,
                     running |-> TRUE, edge |-> (up = opposite \/ firstCheck)]
    IN  [old EXCEPT !.len = @ + 1,
                    !.notes = @ + Len(notified') - Len(notified),
                    !.trans = @ + (metrics'.up_transitions_total - metrics.up_transitions_total)
                                + (metrics'.down_transitions_total - metrics.down_transitions_total),
                    !.running = @ /\ active]

\* Faulty variant: the up results counter counts the transitions only
MonitoringProtocol_resultUpCountsTransitions ==
    /\ IF stateChange("False")
       THEN /\ up' = "True"
            /\ firstCheck' = FALSE
            /\ notified' = IF coordinator
                           THEN Append(notified, [kind |-> "up", reason |-> "None"])
                           ELSE notified
            /\ metrics' = [metrics EXCEPT !.up_results_total = @ + 1,
                                          !.up_transitions_total = @ + 1,
                                          !.status = <<1>>]
       ELSE UNCHANGED <<up, firstCheck, notified, metrics>>
    /\ calls' = [calls EXCEPT !.up = @ + 1]
    /\ streak' = StreakAfter("up", "False")
    /\ monOp' = MonOp("resultUp", "")
    /\ UNCHANGED <<monitor, coordinator, active, shutdownTriggerID, triggers>>
    /\ UNCHANGED <<lvsVars, pureVars>>

\* MonitoringProtocol._resultUp
MonitoringProtocol_resultUp ==
    /\ IF stateChange("False")
       THEN /\ up' = "True"
            /\ firstCheck' = FALSE
            /\ notified' = IF coordinator
                           THEN Append(notified, [kind |-> "up", reason |-> "None"])
                           ELSE notified
            /\ metrics' = [metrics EXCEPT !.up_results_total = @ + 1,
                                          !.up_transitions_total = @ + 1,
                                          !.status = <<1>>]
       ELSE /\ metrics' = [metrics EXCEPT !.up_results_total = @ + 1]
            /\ UNCHANGED <<up, firstCheck, notified>>
    /\ calls' = [calls EXCEPT !.up = @ + 1]
    /\ streak' = StreakAfter("up", "False")
    /\ monOp' = MonOp("resultUp", "")
    /\ UNCHANGED <<monitor, coordinator, active, shutdownTriggerID, triggers>>
    /\ UNCHANGED <<lvsVars, pureVars>>

\* Faulty variant: _resultDown that does not call the coordinator
MonitoringProtocol_resultDownSilent(reason) ==
    /\ IF stateChange("True")
       THEN /\ up' = "False"
            /\ firstCheck' = FALSE
            /\ metrics' = [metrics EXCEPT !.down_results_total = @ + 1,
                                          !.down_transitions_total = @ + 1,
                                          !.status = <<0>>]
            /\ UNCHANGED notified
       ELSE /\ metrics' = [metrics EXCEPT !.down_results_total = @ + 1]
            /\ UNCHANGED <<up, firstCheck, notified>>
    /\ calls' = [calls EXCEPT !.down = @ + 1]
    /\ streak' = StreakAfter("down", "True")
    /\ monOp' = MonOp("resultDown", "")
    /\ UNCHANGED <<monitor, coordinator, active, shutdownTriggerID, triggers>>
    /\ UNCHANGED <<lvsVars, pureVars>>

\* MonitoringProtocol._resultDown(reason)
MonitoringProtocol_resultDown(reason) ==
    /\ IF stateChange("True")
       THEN /\ up' = "False"
            /\ firstCheck' = FALSE
            /\ notified' = IF coordinator
                           THEN Append(notified, [kind |-> "down", reason |-> reason])
                           ELSE notified
            /\ metrics' = [metrics EXCEPT !.down_results_total = @ + 1,
                                          !.down_transitions_total = @ + 1,
                                          !.status = <<0>>]
       ELSE /\ metrics' = [metrics EXCEPT !.down_results_total = @ + 1]
            /\ UNCHANGED <<up, firstCheck, notified>>
    /\ calls' = [calls EXCEPT !.down = @ + 1]
    /\ streak' = StreakAfter("down", "True")
    /\ monOp' = MonOp("resultDown", "")
    /\ UNCHANGED <<monitor, coordinator, active, shutdownTriggerID, triggers>>
    /\ UNCHANGED <<lvsVars, pureVars>>

\* The calls made on an instance of the base class.
MonitoringProtocol(coord) ==
    /\ monitor = "none"
    /\ monitor' = "created"
    /\ MonitoringProtocol_init(coord)
    /\ UNCHANGED dnsVars

run ==
    /\ monitor = "created"
    /\ MonitoringProtocol_run
    /\ UNCHANGED dnsVars

stop ==
    /\ monitor = "created"
    /\ MonitoringProtocol_stop
    /\ UNCHANGED dnsVars

resultUp ==
    /\ monitor = "created"
    /\ nResultCalls < MaxResults
    /\ MonitoringProtocol_resultUp
    /\ UNCHANGED dnsVars

resultDown(reason) ==
    /\ monitor = "created"
    /\ nResultCalls < MaxResults
    /\ MonitoringProtocol_resultDown(reason)
    /\ UNCHANGED dnsVars

MonNext ==
    \/ \E coord \in BOOLEAN : MonitoringProtocol(coord)
    \/ run
    \/ stop
    \/ resultUp
    \/ \E reason \in Reasons : resultDown(reason)

(***************************************************************************)
(* DNSQueryMonitoringProtocol (pybal/monitors/dnsquery.py)                 *)
(***************************************************************************)
DNSInit ==
    /\ failOnNXDOMAIN = FALSE
    /\ DNSQueryDeferred = "None"
    /\ checkStartTime = "None"
    /\ request_duration_seconds = [successful |-> 0, failed |-> 0]
    /\ nChecks = 0
    /\ suppressed = 0
    /\ probeStopped = FALSE
    /\ dnsOp = [op |-> "none", failure |-> "", reason |-> "", raised |-> ""]

DnsOp(name, failure, reason, raised) ==
    [op |-> name, failure |-> failure, reason |-> reason, raised |-> raised]

\* The exception classes this monitor names or can meet, each with its base
\* class (twisted.internet.defer, twisted.names.error, builtins).
BaseClass ==
    [c \in {"CancelledError", "TimeoutError", "DNSQueryTimeoutError", "DomainError",
            "AuthoritativeDomainError", "DNSFormatError", "DNSServerError",
            "DNSNameError", "DNSNotImplementedError", "DNSQueryRefusedError",
            "DNSUnknownError", "ResolverError", "AttributeError", "ValueError",
            "Exception"} |->
        CASE c = "DNSQueryTimeoutError" -> "TimeoutError"
          [] c \in {"DNSFormatError", "DNSServerError", "DNSNameError",
                    "DNSNotImplementedError", "DNSQueryRefusedError",
                    "DNSUnknownError"} -> "DomainError"
          [] c \in {"DomainError", "AuthoritativeDomainError"} -> "ValueError"
          [] OTHER -> "Exception"]

RECURSIVE IsSubclass(_, _)
IsSubclass(c, base) ==
    \/ c = base
    \/ c # "Exception" /\ IsSubclass(BaseClass[c], base)

\* failure.check(cls)
failureCheck(failure, cls) == IsSubclass(failure, cls)

catchList == {"TimeoutError", "DomainError", "AuthoritativeDomainError",
              "DNSFormatError", "DNSNameError", "DNSQueryRefusedError",
              "DNSQueryTimeoutError", "DNSServerError", "DNSUnknownError"}

\* Faulty variant: a trap that lets every failure pass
failureTrapAll(failure) == TRUE

\* failure.trap(*self.catchList) returns; otherwise it raises the failure again
failureTrap(failure) == \E cls \in catchList : failureCheck(failure, cls)

\* the failures the resolver's Deferred can fire its errbacks with
Failures == {"DNSQueryTimeoutError", "DNSServerError", "DNSNameError",
             "DNSQueryRefusedError", "DNSFormatError", "DNSNotImplementedError",
             "AuthoritativeDomainError", "TimeoutError", "ResolverError",
             "AttributeError"}

\* errorStr of _queryFailed; str(failure) names the class of the failure
errorStr(failure) ==
    IF failureCheck(failure, "DNSQueryTimeoutError") THEN "DNS query timeout"
    ELSE IF failureCheck(failure, "DNSServerError") THEN "DNS server error"
    ELSE IF failureCheck(failure, "DNSNameError") THEN "NXDOMAIN"
    ELSE IF failureCheck(failure, "DNSQueryRefusedError") THEN "DNS query refused"
    ELSE failure

\* DNSQueryMonitoringProtocol.__init__
DNSQueryMonitoringProtocol(coord, failOn) ==
    /\ monitor = "none"
    /\ monitor' = "DNSQuery"
    /\ MonitoringProtocol_init(coord)
    /\ failOnNXDOMAIN' = failOn
    /\ DNSQueryDeferred' = "None"
    /\ checkStartTime' = "None"
    /\ dnsOp' = DnsOp("init", "", "", "")
    /\ UNCHANGED <<request_duration_seconds, nChecks, suppressed, probeStopped>>

\* DNSQueryMonitoringProtocol.run
DNSQuery_run ==
    /\ monitor = "DNSQuery"
    /\ MonitoringProtocol_run
    /\ dnsOp' = DnsOp("run", "", "", monOp'.raised)
    /\ UNCHANGED <<failOnNXDOMAIN, DNSQueryDeferred, checkStartTime,
                   request_duration_seconds, nChecks, suppressed, probeStopped>>

\* The looping call of LoopingCheckMonitoringProtocol calls check() while the
\* instance runs, and not before the Deferred of the previous check has fired.
LoopingCallFires == active /\ DNSQueryDeferred # "pending"

\* DNSQueryMonitoringProtocol.check
check ==
    /\ monitor = "DNSQuery"
    /\ LoopingCallFires
    /\ nChecks < MaxChecks
    /\ nChecks' = nChecks + 1
    /\ checkStartTime' = "set"
    /\ DNSQueryDeferred' = "pending"
    /\ probeStopped' = FALSE
    /\ dnsOp' = DnsOp("check", "", "", "")
    /\ UNCHANGED <<failOnNXDOMAIN, request_duration_seconds, suppressed>>
    /\ UNCHANGED baseVars
    /\ UNCHANGED <<lvsVars, pureVars>>

\* a callback that returns without a result call
NoResult ==
    /\ UNCHANGED baseVars
    /\ UNCHANGED <<lvsVars, pureVars>>

\* DNSQueryMonitoringProtocol._querySuccessful
querySuccessful(caller) ==
    /\ MonitoringProtocol_resultUp
    /\ request_duration_seconds' = [request_duration_seconds EXCEPT !.successful = @ + 1]
    /\ dnsOp' = DnsOp(caller, "", "", "")

\* Faulty variant: NXDOMAIN is a failure whatever fail-on-nxdomain says
queryFailedNXDOMAINDown(failure, caller) ==
    IF failureCheck(failure, "CancelledError")
    THEN /\ UNCHANGED request_duration_seconds
         /\ dnsOp' = DnsOp(caller, failure, "", "")
    ELSE /\ MonitoringProtocol_resultDown(errorStr(failure))
         /\ request_duration_seconds' = [request_duration_seconds EXCEPT !.failed = @ + 1]
         /\ dnsOp' = DnsOp(caller, failure, errorStr(failure),
                           IF failureTrap(failure) THEN "" ELSE failure)

\* DNSQueryMonitoringProtocol._queryFailed
queryFailed(failure, caller) ==
    IF failureCheck(failure, "CancelledError")
    THEN \* return None: no result call, the instance stays as stop() left it
         /\ UNCHANGED request_duration_seconds
         /\ dnsOp' = DnsOp(caller, failure, "", "")
    ELSE IF /\ ~failureCheck(failure, "DNSQueryTimeoutError")
            /\ ~failureCheck(failure, "DNSServerError")
            /\ failureCheck(failure, "DNSNameError")
            /\ ~failOnNXDOMAIN
    THEN \* self._resultUp(); return None
         /\ MonitoringProtocol_resultUp
         /\ UNCHANGED request_duration_seconds
         /\ dnsOp' = DnsOp(caller, failure, "", "")
    ELSE /\ MonitoringProtocol_resultDown(errorStr(failure))
         /\ request_duration_seconds' = [request_duration_seconds EXCEPT !.failed = @ + 1]
         /\ dnsOp' = DnsOp(caller, failure, errorStr(failure),
                           IF failureTrap(failure) THEN "" ELSE failure)

\* DNSQueryMonitoringProtocol._checkFinished
checkFinished == checkStartTime' = "None"

\* Faulty variant: stop() that does not cancel the Deferred
DNSQuery_stopWithoutCancel ==
    /\ monitor = "DNSQuery"
    /\ MonitoringProtocol_stop
    /\ dnsOp' = DnsOp("stop", "", "", "")
    /\ probeStopped' = (DNSQueryDeferred # "None")
    /\ UNCHANGED <<DNSQueryDeferred, checkStartTime, suppressed,
                   request_duration_seconds>>
    /\ UNCHANGED <<failOnNXDOMAIN, nChecks>>

\* DNSQueryMonitoringProtocol.stop.  Deferred.cancel() on a Deferred that has
\* not fired runs its errbacks with CancelledError before it returns, and
\* makes the Deferred drop the result the resolver delivers later; on a
\* Deferred that has fired it does nothing.
DNSQuery_stop ==
    /\ monitor = "DNSQuery"
    /\ MonitoringProtocol_stop
    /\ IF DNSQueryDeferred = "pending"
       THEN /\ queryFailed("CancelledError", "stop")
            /\ checkFinished
            /\ DNSQueryDeferred' = "called"
            /\ suppressed' = suppressed + 1
       ELSE /\ dnsOp' = DnsOp("stop", "", "", "")
            /\ UNCHANGED <<DNSQueryDeferred, checkStartTime, suppressed,
                           request_duration_seconds>>
    /\ probeStopped' = (DNSQueryDeferred # "None")
    /\ UNCHANGED <<failOnNXDOMAIN, nChecks>>

\* the resolver fires the Deferred with its answers:
\* _querySuccessful, then _checkFinished
resolverAnswers ==
    /\ monitor = "DNSQuery"
    /\ DNSQueryDeferred = "pending"
    /\ querySuccessful("querySuccessful")
    /\ checkFinished
    /\ DNSQueryDeferred' = "called"
    /\ UNCHANGED <<failOnNXDOMAIN, nChecks, suppressed, probeStopped>>

\* the resolver fires the Deferred with a failure:
\* _queryFailed, then _checkFinished
resolverFails(failure) ==
    /\ monitor = "DNSQuery"
    /\ DNSQueryDeferred = "pending"
    /\ ~failureCheck(failure, "CancelledError")
    /\ queryFailed(failure, "queryFailed")
    /\ checkFinished
    /\ DNSQueryDeferred' = "called"
    /\ UNCHANGED <<failOnNXDOMAIN, nChecks, suppressed, probeStopped>>

\* the resolver delivers the result of a query whose Deferred was cancelled:
\* the Deferred drops it and runs no callback
resolverLateResult ==
    /\ monitor = "DNSQuery"
    /\ suppressed > 0
    /\ suppressed' = suppressed - 1
    /\ dnsOp' = DnsOp("suppressed", "", "", "")
    /\ UNCHANGED <<failOnNXDOMAIN, DNSQueryDeferred, checkStartTime,
                   request_duration_seconds, nChecks, probeStopped>>
    /\ NoResult

DNSNext ==
    \/ \E coord \in BOOLEAN, failOn \in BOOLEAN : DNSQueryMonitoringProtocol(coord, failOn)
    \/ DNSQuery_run
    \/ DNSQuery_stop
    \/ check
    \/ resolverAnswers
    \/ \E failure \in Failures : resolverFails(failure)
    \/ resolverLateResult

(***************************************************************************)
(* IPVSManager command construction, called on its own                     *)
(***************************************************************************)
CmdInit == cmdOp = [cmd |-> "none", service |-> <<>>, server |-> 0, out |-> <<>>]

\* the addresses of test_ipvs.py
address4 == <<"2", "0", "8", ".", "0", ".", "0", ".", "1">>
address6 == <<"2", "6", "2", "0", ":", ":", "1", "2", "3">>

\* service tuples of length 3, 4 and 5
CmdServices ==
    LET short == {<<protocol, address, port>> :
                     protocol \in SVC_PROTOS, address \in {address4, address6},
                     port \in {80, 123, 443}}
    IN  short
        \cup {t \o <<scheduler>> : t \in short, scheduler \in {rr, wlc}}
        \cup {t \o <<scheduler, ops>> :
                  t \in short, scheduler \in {rr, wlc}, ops \in BOOLEAN}

\* a call of one of the static methods of IPVSManager
Construct(cmd, service, server, out) ==
    /\ cmdOp' = [cmd |-> cmd, service |-> service, server |-> server, out |-> out]
    /\ UNCHANGED <<lvsVars, monVars, ipOp>>

\* the servers of the service, and servers with weight 0, -1 and 1
CmdServers == Servers \cup {4, 5, 6}

CmdServerStub(s) ==
    CASE s \in Servers -> ServerStub(s)
      [] s = 4 -> [host |-> <<"e">>, ip |-> <<>>, weight |-> <<0>>]
      [] s = 5 -> [host |-> <<"f">>, ip |-> <<>>, weight |-> <<-1>>]
      [] OTHER -> [host |-> <<"g">>, ip |-> <<>>, weight |-> <<1>>]

CmdNext ==
    \/ \E service \in CmdServices :
          Construct("subCommandService", service, 0, subCommandService(service))
    \/ \E server \in CmdServers :
          Construct("subCommandServer", <<>>, server, subCommandServer(CmdServerStub(server)))
    \/ \E service \in CmdServices :
          Construct("commandRemoveService", service, 0, commandRemoveService(service))
    \/ \E service \in CmdServices :
          Construct("commandAddService", service, 0, commandAddService(service))
    \/ \E service \in CmdServices, server \in CmdServers :
          Construct("commandRemoveServer", service, server,
                    commandRemoveServer(service, CmdServerStub(server)))
    \/ \E service \in CmdServices, server \in CmdServers :
          Construct("commandAddServer", service, server,
                    commandAddServer(service, CmdServerStub(server)))
    \/ \E service \in CmdServices, server \in CmdServers :
          Construct("commandEditServer", service, server,
                    commandEditServer(service, CmdServerStub(server)))

(***************************************************************************)
(* IPPrefix (pybal/bgp/ip.py).  A packed string is a sequence of bytes     *)
(* 0..255; addressfamily 0 is None.                                        *)
(***************************************************************************)
AFI_INET == 1
AFI_INET6 == 2

\* the attributes before __init__ has assigned them
NoPrefix == [prefix |-> <<>>, prefixlen |-> 0, addressfamily |-> 0]

Returned(obj) == [raised |-> "", obj |-> obj]
Raised(exception) == [raised |-> exception, obj |-> NoPrefix]

\* s.ljust(width, fill): pads, never truncates
ljust(s, width, fill) ==
    IF Len(s) >= width THEN s ELSE s \o [i \in 1..(width - Len(s)) |-> fill]

\* IPPrefix._packedMaxLen
packedMaxLen(self) == IF self.addressfamily = AFI_INET6 THEN 16 ELSE 4

\* IPPrefix.packed(pad)
packed(self, pad) ==
    IF pad THEN ljust(self.prefix, packedMaxLen(self), 0) ELSE self.prefix

\* x < y of two Python byte strings: the first differing byte decides, and a
\* proper prefix is less than the longer string
StrLt(x, y) ==
    \E i \in 1..Len(y) :
        /\ \A j \in 1..(i - 1) : j <= Len(x) /\ x[j] = y[j]
        /\ i > Len(x) \/ x[i] < y[i]

\* IPPrefix.__eq__
IPPrefix_eq(self, other) ==
    /\ self.prefixlen = other.prefixlen
    /\ packed(self, TRUE) = packed(other, TRUE)

\* IPPrefix.__lt__
IPPrefix_lt(self, other) ==
    \/ StrLt(self.prefix, other.prefix)
    \/ self.prefix = other.prefix /\ self.prefixlen < other.prefixlen

\* IPPrefix.__gt__
IPPrefix_gt(self, other) ==
    \/ StrLt(other.prefix, self.prefix)
    \/ self.prefix = other.prefix /\ self.prefixlen > other.prefixlen

\* IPPrefix.__init__((octets, prefixlen), addressfamily)
IPPrefix_fromTuple(addressfamily, octets, prefixlen) ==
    IF addressfamily = 0
    THEN Raised("ValueError")
    ELSE IF \E i \in 1..Len(octets) : octets[i] \notin 0..255
    THEN \* chr(o)
         Raised("ValueError")
    ELSE Returned([prefix |-> octets, prefixlen |-> prefixlen,
                   addressfamily |-> addressfamily])

\* b"".join(parts)
RECURSIVE Concat(_)
Concat(parts) == IF Len(parts) = 0 THEN <<>> ELSE parts[1] \o Concat(Tail(parts))

\* the AFI_INET branch of the textual form: one byte per dotted number
packedInet(prefix) ==
    LET octets == Split(prefix, ".")
    IN  IF \E i \in 1..Len(octets) : ~IsDecimal(octets[i])
        THEN Raised("ValueError")
        ELSE IF \E i \in 1..Len(octets) : ParseDec(octets[i]) > 255
        THEN Raised("ValueError")
        ELSE Returned([NoPrefix EXCEPT
                         !.prefix = [i \in 1..Len(octets) |-> ParseDec(octets[i])]])

\* the AFI_INET6 branch of the textual form: two bytes per group, and for
\* every empty string of the split as many zero groups as 8 - len(hexlist) + 1
packedInet6(prefix) ==
    LET text == IF StartsWith(prefix, <<":", ":">>) THEN <<"0">> \o prefix
                ELSE IF EndsWith(prefix, <<":", ":">>) THEN prefix \o <<"0">>
                ELSE prefix
        hexlist == Split(text, ":")
        group(hexstr) ==
            IF hexstr # <<>>
            THEN <<ParseHex(hexstr) \div 256, ParseHex(hexstr) % 256>>
            ELSE [i \in 1..(2 * (8 - Len(hexlist) + 1)) |-> 0]
    IN  IF Len(hexlist) > 8
        THEN Raised("ValueError")
        ELSE IF \E i \in 1..Len(hexlist) : hexlist[i] # <<>> /\ ~IsHex(hexlist[i])
        THEN Raised("ValueError")
        ELSE IF \E i \in 1..Len(hexlist) : hexlist[i] # <<>> /\ ParseHex(hexlist[i]) > 65535
        THEN Raised("struct.error")
        ELSE Returned([NoPrefix EXCEPT
                         !.prefix = Concat([i \in 1..Len(hexlist) |-> group(hexlist[i])])])

\* IPPrefix.__init__(text, addressfamily)
IPPrefix_fromText(text, addressfamily) ==
    LET parts == Split(text, "/")
        family == IF addressfamily # 0 THEN addressfamily
                  ELSE IF Contains(parts[1], ":") THEN AFI_INET6 ELSE AFI_INET
        bytes == IF family = AFI_INET THEN packedInet(parts[1]) ELSE packedInet6(parts[1])
    IN  IF Len(parts) # 2
        THEN \* prefix, prefixlen = ipprefix.split('/')
             Raised("ValueError")
        ELSE IF bytes.raised # ""
        THEN bytes
        ELSE IF ~IsDecimal(parts[2])
        THEN Raised("ValueError")
        ELSE Returned([prefix |-> bytes.obj.prefix, prefixlen |-> ParseDec(parts[2]),
                       addressfamily |-> family])

\* <<addressfamily, octets, prefixlen>>
TupleInputs ==
    { <<AFI_INET, <<10>>, 8>>, <<AFI_INET, <<10, 0, 0, 0>>, 8>>,
      <<AFI_INET, <<10, 0, 0, 0>>, 16>>, <<AFI_INET, <<10, 1>>, 16>>,
      <<AFI_INET, <<192, 168, 0, 0>>, 16>>, <<AFI_INET, <<1, 2, 3, 4, 5>>, 32>>,
      <<AFI_INET, <<10>>, 33>>, <<AFI_INET, <<10>>, -1>>, <<AFI_INET, <<256>>, 8>>,
      <<0, <<10>>, 8>>, <<AFI_INET6, <<32, 1, 13, 184>>, 32>>,
      <<AFI_INET6, [i \in 1..17 |-> 0], 128>>, <<AFI_INET6, <<>>, 129>> }

TextInputs ==
    { <<"1", "0", ".", "0", ".", "0", ".", "0", "/", "8">>,
      <<"1", "0", ".", "0", ".", "0", ".", "0", "/", "1", "6">>,
      <<"1", "9", "2", ".", "1", "6", "8", ".", "0", ".", "0", "/", "1", "6">>,
      <<"1", ".", "2", ".", "3", ".", "4", ".", "5", "/", "3", "2">>,
      <<"3", "0", "0", ".", "0", ".", "0", ".", "0", "/", "8">>,
      <<"1", "0", ".", "0", ".", "0", ".", "0">>,
      <<":", ":", "/", "0">>,
      <<":", ":", "1", "/", "1", "2", "8">>,
      <<"1", ":", ":", "/", "1", "6">>,
      <<"2", "6", "2", "0", ":", ":", "1", "2", "3", "/", "1", "2", "8">>,
      <<"1", ":", "2", ":", "3", "/", "4", "8">>,
      <<"1", ":", "2", ":", "3", ":", "4", ":", "5", ":", "6", ":", "7", ":", "8", "/", "1", "2", "8">>,
      <<"1", ":", "2", ":", "3", ":", "4", ":", "5", ":", "6", ":", "7", ":", "8", ":", "9", "/", "1", "2", "8">>,
      <<"1", ":", ":", "g", "/", "1", "6">> }

\* the prefixes that are compared: 10/8 stored as one byte and as four,
\* 10.0.0.0/16, 10.1/16 stored as two bytes, 192.168.0.0/16
ComparedPrefixes ==
    { IPPrefix_fromTuple(AFI_INET, <<10>>, 8).obj,
      IPPrefix_fromText(<<"1", "0", ".", "0", ".", "0", ".", "0", "/", "8">>, 0).obj,
      IPPrefix_fromText(<<"1", "0", ".", "0", ".", "0", ".", "0", "/", "1", "6">>, 0).obj,
      IPPrefix_fromTuple(AFI_INET, <<10, 1>>, 16).obj,
      IPPrefix_fromText(<<"1", "9", "2", ".", "1", "6", "8", ".", "0", ".", "0", "/", "1", "6">>, 0).obj }

NoComparison == [lt |-> FALSE, eq |-> FALSE, gt |-> FALSE, bc_lt |-> FALSE, ac_lt |-> FALSE]

IPInit ==
    ipOp = [op |-> "none", text |-> <<>>, family |-> 0, octets |-> <<>>, length |-> 0,
            raised |-> "", a |-> NoPrefix, b |-> NoPrefix, c |-> NoPrefix,
            rel |-> NoComparison]

\* IPPrefix((octets, prefixlen), addressfamily)
constructFromTuple(addressfamily, octets, prefixlen) ==
    LET result == IPPrefix_fromTuple(addressfamily, octets, prefixlen)
    IN  /\ ipOp' = [op |-> "tuple", text |-> <<>>, family |-> addressfamily,
                    octets |-> octets, length |-> prefixlen, raised |-> result.raised,
                    a |-> result.obj, b |-> NoPrefix, c |-> NoPrefix, rel |-> NoComparison]
        /\ UNCHANGED <<lvsVars, monVars, cmdOp>>

\* IPPrefix(text)
constructFromText(text) ==
    LET result == IPPrefix_fromText(text, 0)
    IN  /\ ipOp' = [op |-> "text", text |-> text, family |-> 0,
                    octets |-> <<>>, length |-> 0, raised |-> result.raised,
                    a |-> result.obj, b |-> NoPrefix, c |-> NoPrefix, rel |-> NoComparison]
        /\ UNCHANGED <<lvsVars, monVars, cmdOp>>

\* a < b, a == b, a > b, b < c and a < c
compare(a, b, c) ==
    /\ ipOp' = [op |-> "compare", text |-> <<>>, family |-> 0, octets |-> <<>>,
                length |-> 0, raised |-> "", a |-> a, b |-> b, c |-> c,
                rel |-> [lt |-> IPPrefix_lt(a, b), eq |-> IPPrefix_eq(a, b),
                         gt |-> IPPrefix_gt(a, b), bc_lt |-> IPPrefix_lt(b, c),
                         ac_lt |-> IPPrefix_lt(a, c)]]
    /\ UNCHANGED <<lvsVars, monVars, cmdOp>>

IPNext ==
    \/ \E input \in TupleInputs : constructFromTuple(input[1], input[2], input[3])
    \/ \E text \in TextInputs : constructFromText(text)
    \/ \E a \in ComparedPrefixes, b \in ComparedPrefixes, c \in ComparedPrefixes :
          compare(a, b, c)

Init == LVSInit /\ MonInit /\ DNSInit /\ CmdInit /\ IPInit

Next == LVSNext \/ MonNext \/ DNSNext \/ CmdNext \/ IPNext

Spec == Init /\ [][Next]_vars

\* The service alone, and the monitor alone.
SpecLVS == Init /\ [][LVSNext]_vars

SpecMon == Init /\ [][MonNext]_vars

SpecDNS == Init /\ [][DNSNext]_vars

SpecCmd == Init /\ [][CmdNext]_vars

SpecIP == Init /\ [][IPNext]_vars

SpecPool == Init /\ [][PoolNext]_vars

SpecTable == Init /\ [][TableNext]_vars

(***************************************************************************)
(* Properties of the LVS service                                           *)
(***************************************************************************)
CountOf(list, cmd) == Cardinality({i \in DOMAIN list : list[i] = cmd})

AddOf(s) == commandAddServer(svc, ServerStub(s))
EditOf(s) == commandEditServer(svc, ServerStub(s))
RemoveOf(s) == commandRemoveServer(svc, ServerStub(s))

\* C1: assignServers emits all its add commands (one per server of D minus I)
\* first, then all its edit commands (D intersect I), then all its remove
\* commands (I minus D): no edit precedes an add, and no remove precedes an
\* add or an edit.
C1_AddEditRemoveOrder ==
    lastOp.op = "assignServers" =>
        LET D == lastOp.new
            I == lastOp.pre
            nAdd == Cardinality(D \ I)
            nEdit == Cardinality(D \cap I)
        IN  /\ \A i \in 1..Len(cmdList) :
                  Kind(cmdList[i]) = IF i <= nAdd THEN "a"
                                     ELSE IF i <= nAdd + nEdit THEN "e" ELSE "d"
            /\ \A i, j \in 1..Len(cmdList) :
                  i < j => /\ ~(Kind(cmdList[i]) = "e" /\ Kind(cmdList[j]) = "a")
                           /\ ~(Kind(cmdList[i]) = "d" /\ Kind(cmdList[j]) \in {"a", "e"})

\* an assignServers call that added, edited and removed at least one server each
C1_Witness ==
    /\ lastOp.op = "assignServers"
    /\ lastOp.new \ lastOp.pre # {}
    /\ lastOp.new \cap lastOp.pre # {}
    /\ lastOp.pre \ lastOp.new # {}
    /\ Len(cmdList) >= 3

\* C2: assignServers emits exactly one add command per server of D minus I,
\* one edit command per server of D intersect I, one remove command per server
\* of I minus D, and nothing else; from I = {} only adds, |D| of them.  The
\* sets are compared by object identity: server 2, another object with the
\* host of server 1, is added while server 1 is removed.
C2_ExactCommands ==
    lastOp.op = "assignServers" =>
        LET D == lastOp.new
            I == lastOp.pre
            expected == {AddOf(s) : s \in D \ I} \cup {EditOf(s) : s \in D \cap I}
                        \cup {RemoveOf(s) : s \in I \ D}
        IN  /\ Len(cmdList) = Cardinality(D \ I) + Cardinality(D \cap I)
                              + Cardinality(I \ D)
            /\ \A i \in 1..Len(cmdList) : cmdList[i] \in expected
            /\ \A cmd \in expected :
                  CountOf(cmdList, cmd) =
                      Cardinality({s \in D \ I : AddOf(s) = cmd})
                      + Cardinality({s \in D \cap I : EditOf(s) = cmd})
                      + Cardinality({s \in I \ D : RemoveOf(s) = cmd})
            /\ I = {} => /\ Len(cmdList) = Cardinality(D)
                         /\ \A i \in 1..Len(cmdList) : Kind(cmdList[i]) = "a"

\* server 1 installed, its twin 2 and server 3 desired, 3 installed already
C2_Witness ==
    /\ lastOp.op = "assignServers"
    /\ lastOp.pre = {1, 3}
    /\ lastOp.new = {2, 3}
    /\ CountOf(cmdList, AddOf(2)) = 1
    /\ CountOf(cmdList, RemoveOf(1)) = 1

\* C3: after assignServers(D), self.servers is exactly D, whatever was
\* installed and whatever the executor did with the commands.
C3_InstalledIsDesired ==
    lastOp.op = "assignServers" => installedServers = lastOp.new

\* a call that had servers to drop, and whose commands the table did not take
C3_Witness ==
    /\ lastOp.op = "assignServers"
    /\ lastOp.pre \ lastOp.new # {}
    /\ lastExec = "failed"
    /\ installedServers = lastOp.new

\* C4 as claimed: the second of two assignServers(D) calls in a row emits no
\* command, and self.servers is D.
C4_SecondCallEmitsNothing ==
    (lastOp.op = "assignServers" /\ lastOp.again) =>
        /\ cmdList = <<>>
        /\ installedServers = lastOp.new

\* C4, amended: the second of two assignServers(D) calls in a row emits no add
\* and no remove command, only one edit command per server of D, and
\* self.servers is D after either call.
C4_SecondCallOnlyEdits ==
    /\ (lastOp.op = "assignServers" /\ lastOp.again) =>
          /\ lastOp.pre = lastOp.new
          /\ Len(cmdList) = Cardinality(lastOp.new)
          /\ \A i \in 1..Len(cmdList) : Kind(cmdList[i]) = "e"
          /\ \A s \in lastOp.new : CountOf(cmdList, EditOf(s)) >= 1
    /\ lastOp.op = "assignServers" => installedServers = lastOp.new

\* a second assignServers(D) in a row, with D not empty
C4_Witness ==
    /\ lastOp.op = "assignServers"
    /\ lastOp.again
    /\ lastOp.new # {}
    /\ Len(cmdList) > 0

\* C5: addServer of a server not in self.servers emits exactly one add
\* command; of a server in self.servers, exactly one edit command and no add.
\* Either way the server ends in self.servers, with pooled true.
C5_AddServer ==
    lastOp.op = "addServer" =>
        /\ Len(cmdList) = 1
        /\ IF lastOp.server \notin lastOp.pre
           THEN cmdList = <<AddOf(lastOp.server)>> /\ Kind(cmdList[1]) = "a"
           ELSE cmdList = <<EditOf(lastOp.server)>> /\ Kind(cmdList[1]) = "e"
        /\ lastOp.server \in installedServers
        /\ pooled[lastOp.server]

\* addServer of a server that was installed already
C5_Witness ==
    /\ lastOp.op = "addServer"
    /\ lastOp.server \in lastOp.pre
    /\ Kind(cmdList[1]) = "e"

\* C6: removeServer of a server not in self.servers raises KeyError and
\* changes nothing: nothing is handed to modifyState, self.servers and every
\* pooled flag stay.  Of a server in self.servers it hands over exactly one
\* remove command, removes the server and sets pooled to false.
C6_RemoveServer ==
    [][lastOp'.op = "removeServer" =>
          LET server == lastOp'.server
          IN  IF server \notin installedServers
              THEN /\ lastOp'.raised = "KeyError"
                   /\ UNCHANGED <<cmdList, nCalls, lastExec, heap, servers, pooled>>
              ELSE /\ lastOp'.raised = ""
                   /\ cmdList' = <<commandRemoveServer(svc, ServerStub(server))>>
                   /\ nCalls' = nCalls + 1
                   /\ installedServers' = installedServers \ {server}
                   /\ pooled' = [pooled EXCEPT ![server] = FALSE]
      ]_vars

\* removeServer raised for a server whose twin is installed and pooled
C6_Witness ==
    /\ lastOp.op = "removeServer"
    /\ lastOp.raised = "KeyError"
    /\ lastOp.server = 2
    /\ installedServers = {1}
    /\ pooled[1]
    /\ Kind(cmdList[1]) = "a"

\* C7: every successful construction hands modifyState one list of exactly two
\* commands, the remove-service command and then the add-service command (with
\* the scheduler, and -o when ops is set), and no list is handed over for the
\* service before it.
C7_CreateService ==
    /\ svc = NoService => nCalls = 0 /\ cmdList = <<>>
    /\ (lastOp.op = "init" /\ lastOp.raised = "") =>
          /\ nCalls = 1
          /\ Len(cmdList) = 2
          /\ cmdList[1] = <<"-", "D", " ">> \o subCommandService(svc)
          /\ cmdList[2] = <<"-", "A", " ">> \o subCommandService(svc)
                          \o <<" ", "-", "s", " ">> \o svc[4]
                          \o (IF svc[5] THEN <<" ", "-", "o">> ELSE <<>>)

\* a service with one-packet scheduling was constructed
C7_Witness ==
    /\ lastOp.op = "init"
    /\ lastOp.raised = ""
    /\ svc[5]
    /\ Len(cmdList) = 2

\* C8: construction raises ValueError when the protocol is not tcp or udp, the
\* scheduler is not one of SVC_SCHEDULERS, or ops is asked with tcp, and then
\* hands nothing to modifyState, leaves DryRun and Debug alone and registers no
\* BGP association; a constructed service with ops has protocol udp.
C8_Construction ==
    /\ [](svc # NoService => (svc[5] => svc[1] = udp))
    /\ [][lastOp'.op = "init" =>
            LET def == lastOp'.def
            IN  IF \/ def[1] \notin {tcp, udp}
                   \/ def[4] \notin SVC_SCHEDULERS
                   \/ (def[5] /\ def[1] = tcp)
                THEN /\ lastOp'.raised = "ValueError"
                     /\ UNCHANGED <<svc, DryRun, Debug, ipServices, cmdList, nCalls,
                                    lastExec, heap, servers, pooled>>
                ELSE /\ lastOp'.raised = ""
                     /\ svc' = def
       ]_vars

\* a construction with tcp and ops failed, its configuration asking for
\* switches other than the current ones
C8_Witness ==
    /\ lastOp.op = "init"
    /\ lastOp.raised = "ValueError"
    /\ lastOp.def[1] = tcp
    /\ lastOp.def[5]
    /\ DryRun
    /\ nCalls = 0

(***************************************************************************)
(* Properties of the monitor                                               *)
(***************************************************************************)
ResultOps == {"resultUp", "resultDown"}

\* the counters and the gauge a transition writes
TransitionMetrics ==
    <<metrics.up_transitions_total, metrics.down_transitions_total, metrics.status>>

\* C9: a _resultUp/_resultDown call is a transition (up set to the new value,
\* firstCheck cleared, the coordinator the instance has called once, the
\* matching transitions counter incremented once, the status gauge set to 1/0)
\* if and only if (active and up is the opposite definite value) or firstCheck;
\* otherwise up, firstCheck, the transition counters and the gauge stay and
\* the coordinator is not called.
C9_TransitionIff ==
    [][monOp'.op \in ResultOps =>
          LET isUp == monOp'.op = "resultUp"
              new == IF isUp THEN "True" ELSE "False"
              opposite == IF isUp THEN "False" ELSE "True"
          IN  IF (active /\ up = opposite) \/ firstCheck
              THEN /\ up' = new
                   /\ firstCheck' = FALSE
                   /\ coordinator =>
                         /\ Len(notified') = Len(notified) + 1
                         /\ SubSeq(notified', 1, Len(notified)) = notified
                         /\ notified'[Len(notified')].kind = (IF isUp THEN "up" ELSE "down")
                   /\ ~coordinator => notified' = notified
                   /\ metrics'.up_transitions_total =
                         metrics.up_transitions_total + (IF isUp THEN 1 ELSE 0)
                   /\ metrics'.down_transitions_total =
                         metrics.down_transitions_total + (IF isUp THEN 0 ELSE 1)
                   /\ metrics'.status = (IF isUp THEN <<1>> ELSE <<0>>)
              ELSE /\ UNCHANGED <<up, firstCheck, notified>>
                   /\ TransitionMetrics' = TransitionMetrics
      ]_vars

\* the one _resultDown call so far turned a running instance from Up to Down
C9_Witness ==
    /\ monOp.op = "resultDown"
    /\ active
    /\ coordinator
    /\ up = "False"
    /\ metrics.up_transitions_total = 1
    /\ metrics.down_results_total = 1
    /\ metrics.down_transitions_total = 1
    /\ Len(notified) = 2

\* C10 as claimed: a _resultUp/_resultDown call on an instance that is not
\* active increments the raw result counter and never changes up nor calls the
\* coordinator.
C10_InactiveNeverUpdates ==
    [][(monOp'.op \in ResultOps /\ ~active) =>
          /\ nResults' = nResults + 1
          /\ UNCHANGED <<up, notified>>
      ]_vars

\* C10, amended: a _resultUp/_resultDown call on an instance that is not active
\* increments the raw result counter of its kind, and once the first check has
\* completed (firstCheck is false) it never changes up nor calls the
\* coordinator.
C10_InactiveAfterFirstCheck ==
    [][(monOp'.op \in ResultOps /\ ~active) =>
          /\ metrics'.up_results_total =
                metrics.up_results_total + (IF monOp'.op = "resultUp" THEN 1 ELSE 0)
          /\ metrics'.down_results_total =
                metrics.down_results_total + (IF monOp'.op = "resultDown" THEN 1 ELSE 0)
          /\ ~firstCheck => UNCHANGED <<up, firstCheck, notified>>
      ]_vars

\* a _resultDown call reached a stopped instance whose verdict was Up, and only
\* the raw counter moved
C10_Witness ==
    /\ monOp.op = "resultDown"
    /\ ~active
    /\ ~firstCheck
    /\ up = "True"
    /\ metrics.down_results_total = 1
    /\ metrics.down_transitions_total = 0
    /\ metrics.up_transitions_total = 1

\* C11 as claimed: on a running instance, every run of two or more consecutive
\* result calls of one kind produces exactly one coordinator notification and
\* exactly one transition counter increment.
C11_RunNotifiesExactlyOnce ==
    (streak.running /\ streak.len >= 2) =>
        /\ streak.trans = 1
        /\ coordinator => streak.notes = 1

\* C11, amended: a run of consecutive result calls of one kind produces at most
\* one transition counter increment and as many coordinator notifications
\* (none without a coordinator), never one per call; on a running instance it
\* produces exactly one if and only if the run begins at an edge (the verdict
\* is the opposite one, or no check has completed yet), and none if it begins
\* with the verdict already equal to its kind.
C11_RunNotifiesAtMostOnce ==
    streak.len >= 1 =>
        /\ streak.trans <= 1
        /\ streak.notes = (IF coordinator THEN streak.trans ELSE 0)
        /\ streak.running => (streak.trans = 1 <=> streak.edge)

\* three _resultDown calls in a row reached a running instance whose verdict
\* was Up: one notification, one transition
C11_Witness ==
    /\ streak.kind = "down"
    /\ streak.running
    /\ streak.len = 3
    /\ streak.trans = 1
    /\ streak.notes = 1
    /\ metrics.up_transitions_total = 1
    /\ metrics.down_transitions_total = 1
    /\ metrics.down_results_total = 3

\* C12: the first result call on a started instance that has never reported is
\* a transition: up becomes the reported value, firstCheck is cleared, the
\* transition counter of its kind is incremented once and the coordinator the
\* instance has is called exactly once.
C12_FirstResultTransitions ==
    [][(monOp'.op \in ResultOps /\ active /\ nResultCalls = 0) =>
          LET isUp == monOp'.op = "resultUp"
          IN  /\ up = "None" /\ firstCheck
              /\ up' = (IF isUp THEN "True" ELSE "False")
              /\ firstCheck' = FALSE
              /\ Len(notified') = Len(notified) + (IF coordinator THEN 1 ELSE 0)
              /\ coordinator =>
                    notified'[Len(notified')].kind = (IF isUp THEN "up" ELSE "down")
              /\ metrics'.up_transitions_total = (IF isUp THEN 1 ELSE 0)
              /\ metrics'.down_transitions_total = (IF isUp THEN 0 ELSE 1)
      ]_vars

\* the only result call so far, _resultUp on a started instance, made it Up
C12_Witness ==
    /\ monOp.op = "resultUp"
    /\ active
    /\ coordinator
    /\ nResultCalls = 1
    /\ up = "True"
    /\ ~firstCheck
    /\ Len(notified) = 1
    /\ metrics.up_transitions_total = 1

\* C13: every _resultUp/_resultDown call increments the results counter of its
\* kind by exactly one and leaves the other alone, in every state; so each
\* results counter equals the number of calls of its kind and is at least the
\* transitions counter of its kind.
C13_RawCounters ==
    /\ [](/\ metrics.up_results_total = calls.up
          /\ metrics.down_results_total = calls.down
          /\ metrics.up_results_total >= metrics.up_transitions_total
          /\ metrics.down_results_total >= metrics.down_transitions_total)
    /\ [][monOp'.op \in ResultOps =>
             /\ metrics'.up_results_total =
                   metrics.up_results_total + (IF monOp'.op = "resultUp" THEN 1 ELSE 0)
             /\ metrics'.down_results_total =
                   metrics.down_results_total + (IF monOp'.op = "resultDown" THEN 1 ELSE 0)
       ]_vars

\* a second _resultUp in a row was counted although it was no transition
C13_Witness ==
    /\ monOp.op = "resultUp"
    /\ streak.len = 2
    /\ calls.up = 2
    /\ metrics.up_results_total = 2
    /\ metrics.up_transitions_total = 1

\* C14: run() on a stopped instance makes it active and registers exactly one
\* 'before shutdown' trigger, whose id the instance keeps; run() on an active
\* instance raises AssertionError and leaves active, the id and the registered
\* triggers as they were; an active instance holds exactly one trigger.
C14_RunOnce ==
    /\ [](/\ Cardinality(triggers) <= 1
          /\ active => (shutdownTriggerID # <<>> /\ triggers = {shutdownTriggerID[1]}))
    /\ [][monOp'.op = "run" =>
             IF active
             THEN /\ monOp'.raised = "AssertionError"
                  /\ UNCHANGED <<active, shutdownTriggerID, triggers>>
             ELSE /\ monOp'.raised = ""
                  /\ active'
                  /\ shutdownTriggerID' # <<>>
                  /\ shutdownTriggerID'[1] \notin triggers
                  /\ triggers' = triggers \cup {shutdownTriggerID'[1]}
       ]_vars

\* run() was called on an instance that was running
C14_Witness ==
    /\ monOp = MonOp("run", "AssertionError")
    /\ active
    /\ triggers = {shutdownTriggerID[1]}

\* the trigger this instance has registered, if any
OwnTrigger == IF shutdownTriggerID = <<>> THEN {} ELSE {shutdownTriggerID[1]}

\* C15: stop() from any state leaves the instance inactive with no shutdown
\* trigger id, its trigger removed from the reactor, and does not touch the
\* verdict, the counters or the coordinator; stop() on an instance that is
\* stopped (stopped before, or never run) changes nothing at all.
C15_StopIdempotent ==
    [][dnsOp'.op = "stop" =>
          /\ ~active'
          /\ shutdownTriggerID' = <<>>
          /\ triggers' = triggers \ OwnTrigger
          /\ UNCHANGED <<monitor, coordinator, up, firstCheck, metrics, notified, calls>>
          /\ (~active /\ shutdownTriggerID = <<>>) =>
                UNCHANGED <<monitor, coordinator, up, active, firstCheck,
                            shutdownTriggerID, triggers, metrics, notified, calls,
                            DNSQueryDeferred, checkStartTime,
                            request_duration_seconds, suppressed>>
      ]_vars

\* stop() left the instance stopped with no trigger registered, the query
\* that was in flight cancelled
C15_Witness ==
    /\ dnsOp.op = "stop"
    /\ monOp.op = "stop"
    /\ ~active
    /\ shutdownTriggerID = <<>>
    /\ triggers = {}
    /\ DNSQueryDeferred = "called"
    /\ suppressed = 1
    /\ request_duration_seconds.failed = 0
    /\ nResultCalls = 0

\* the steps in which the resolver delivers the result of a query
Completions == {"querySuccessful", "queryFailed", "suppressed"}

\* what a result call or a notification would change
Verdict == <<up, firstCheck, metrics, notified, calls, request_duration_seconds>>

\* C16: stop() itself changes neither the verdict nor a counter and notifies
\* nobody; when it returns no query is in flight; and the result of a query
\* that was in flight when stop() was called, whenever the resolver delivers
\* it, changes neither the verdict nor a counter and notifies nobody.
C16_CancellationSilent ==
    /\ [](probeStopped => DNSQueryDeferred # "pending")
    /\ [][dnsOp'.op = "stop" => Verdict' = Verdict]_vars
    /\ [][(dnsOp'.op \in Completions /\ (probeStopped \/ dnsOp'.op = "suppressed")) =>
             Verdict' = Verdict]_vars

\* the result of the only query made came back after stop() had cancelled it
C16_Witness ==
    /\ dnsOp.op = "suppressed"
    /\ probeStopped
    /\ ~active
    /\ nChecks = 1
    /\ suppressed = 0
    /\ up = "None"
    /\ nResultCalls = 0
    /\ notified = <<>>

\* the failures of the catch list, and of its subclasses
Recognized == {f \in Failures : \E cls \in catchList : IsSubclass(f, cls)}

\* C17: a query that fails with NXDOMAIN calls _resultUp once and never
\* _resultDown when fail-on-nxdomain is false, and _resultDown once with the
\* NXDOMAIN reason and never _resultUp when it is true; a query that fails with
\* any other recognized failure calls _resultDown once with a reason and never
\* _resultUp; the reason is the one the coordinator gets.
C17_NXDOMAIN ==
    [][dnsOp'.op = "queryFailed" =>
          LET f == dnsOp'.failure
              ups == calls'.up - calls.up
              downs == calls'.down - calls.down
          IN  /\ f = "DNSNameError" =>
                    IF failOnNXDOMAIN
                    THEN ups = 0 /\ downs = 1 /\ dnsOp'.reason = "NXDOMAIN"
                    ELSE ups = 1 /\ downs = 0
              /\ (f \in Recognized /\ f # "DNSNameError") =>
                    ups = 0 /\ downs = 1 /\ dnsOp'.reason # ""
              /\ Len(notified') > Len(notified) =>
                    notified'[Len(notified')] =
                       (IF downs = 1
                        THEN [kind |-> "down", reason |-> dnsOp'.reason]
                        ELSE [kind |-> "up", reason |-> "None"])
      ]_vars

\* the first query got NXDOMAIN with fail-on-nxdomain false: the verdict is Up
C17_Witness ==
    /\ dnsOp.op = "queryFailed"
    /\ dnsOp.failure = "DNSNameError"
    /\ ~failOnNXDOMAIN
    /\ coordinator
    /\ calls = [up |-> 1, down |-> 0]
    /\ up = "True"
    /\ notified = <<[kind |-> "up", reason |-> "None"]>>

\* C18 as claimed: a check that ends with a result call sets the duration
\* gauge exactly once, with result 'successful' if it called _resultUp and
\* 'failed' if it called _resultDown, whatever the path (success, accepted
\* NXDOMAIN, failure).
C18_DurationOnEveryResult ==
    [][dnsOp'.op \in {"querySuccessful", "queryFailed"} =>
          /\ request_duration_seconds'.successful - request_duration_seconds.successful
                = calls'.up - calls.up
          /\ request_duration_seconds'.failed - request_duration_seconds.failed
                = calls'.down - calls.down
      ]_vars

\* C19: a failure that is neither of the catch list nor a cancellation leaves
\* _queryFailed as an exception, the failure itself; a recognized failure does
\* not.
C19_UnrecognizedPropagates ==
    [][dnsOp'.op = "queryFailed" =>
          IF dnsOp'.failure \in Recognized
          THEN dnsOp'.raised = ""
          ELSE dnsOp'.raised = dnsOp'.failure
      ]_vars

\* a query failed with an AttributeError, which was raised again after
\* _resultDown had been called
C19_Witness ==
    /\ dnsOp.op = "queryFailed"
    /\ dnsOp.failure = "AttributeError"
    /\ dnsOp.raised = "AttributeError"
    /\ calls.down = 1

(***************************************************************************)
(* Properties of the command construction                                  *)
(***************************************************************************)
\* word is <address>:<port>, the address in brackets if and only if it contains a colon
IsAddressPort(word, address, port) ==
    LET shown == IF Contains(address, ":") THEN <<"[">> \o address \o <<"]">> ELSE address
        n == Len(shown)
    IN  /\ Len(word) > n + 1
        /\ SubSeq(word, 1, n) = shown
        /\ word[n + 1] = ":"
        /\ \A i \in (n + 2)..Len(word) :
              word[i] \in {"0", "1", "2", "3", "4", "5", "6", "7", "8", "9"}
        /\ ParseDec(SubSeq(word, n + 2, Len(word))) = port
        /\ Contains(word, "[") <=> Contains(address, ":")

ServerCommands == {"commandRemoveServer", "commandAddServer", "commandEditServer"}

\* the words that come before the service part, the server part and the options
WordsBefore(cmd) ==
    CASE cmd = "commandRemoveService" -> << <<"-", "D">> >>
      [] cmd = "commandAddService" -> << <<"-", "A">> >>
      [] cmd = "commandRemoveServer" -> << <<"-", "d">> >>
      [] cmd = "commandAddServer" -> << <<"-", "a">> >>
      [] cmd = "commandEditServer" -> << <<"-", "e">> >>
      [] OTHER -> <<>>

\* C20: in the string a command construction returns, the words are separated
\* by single spaces; the service is '-t' for tcp and '-u' for udp followed by
\* <address>:<port>, the address in brackets if and only if it contains a
\* colon; the server is '-r' followed by its ip if that is not empty and by
\* its host otherwise; '-s <scheduler>' is there if and only if the command is
\* add-service and the tuple has a scheduler, '-o' if and only if moreover its
\* one-packet flag is set; and add-service of (tcp, 2620::123, 443, rr, False)
\* is exactly '-A -t [2620::123]:443 -s rr'.
C20_CommandConstruction ==
    cmdOp.cmd # "none" =>
        LET cmd == cmdOp.cmd
            service == cmdOp.service
            words == Split(cmdOp.out, " ")
            k == Len(WordsBefore(cmd))
            hasService == cmd # "subCommandServer"
            hasServer == cmd \in ServerCommands \cup {"subCommandServer"}
            r == IF hasService THEN k + 2 ELSE k
            rest == SubSeq(words, r + (IF hasServer THEN 3 ELSE 1), Len(words))
            scheduler == cmd = "commandAddService" /\ Len(service) > 3
            ops == scheduler /\ Len(service) > 4 /\ service[5]
        IN  /\ SubSeq(words, 1, k) = WordsBefore(cmd)
            /\ hasService =>
                  /\ Len(words) >= k + 2
                  /\ service[1] = tcp => words[k + 1] = <<"-", "t">>
                  /\ service[1] = udp => words[k + 1] = <<"-", "u">>
                  /\ IsAddressPort(words[k + 2], service[2], service[3])
            /\ hasServer =>
                  /\ Len(words) >= r + 2
                  /\ words[r + 1] = <<"-", "r">>
                  /\ words[r + 2] = (IF CmdServerStub(cmdOp.server).ip # <<>>
                                     THEN CmdServerStub(cmdOp.server).ip
                                     ELSE CmdServerStub(cmdOp.server).host)
            /\ (\E i \in 1..Len(words) : words[i] = <<"-", "s">>) <=> scheduler
            /\ (\E i \in 1..Len(words) : words[i] = <<"-", "o">>) <=> ops
            /\ ~hasServer =>
                  rest = (IF scheduler THEN << <<"-", "s">>, service[4] >> ELSE <<>>)
                            \o (IF ops THEN << <<"-", "o">> >> ELSE <<>>)
            /\ (cmd = "commandAddService" /\ service = <<tcp, address6, 443, rr, FALSE>>) =>
                  cmdOp.out = <<"-", "A", " ", "-", "t", " ", "[", "2", "6", "2", "0", ":", ":", "1", "2", "3", "]", ":", "4", "4", "3", " ", "-", "s", " ", "r", "r">>

\* add-service was constructed for a udp service on an IPv4 address with a
\* scheduler and the one-packet flag
C20_Witness ==
    /\ cmdOp.cmd = "commandAddService"
    /\ cmdOp.service = <<udp, address4, 123, wlc, TRUE>>
    /\ cmdOp.out = <<"-", "A", " ", "-", "u", " ", "2", "0", "8", ".", "0", ".", "0", ".", "1", ":", "1", "2", "3", " ", "-", "s", " ", "w", "l", "c", " ", "-", "o">>

\* the end of the command after the server part
AfterServer(cmd, service, server) ==
    LET n == 3 + Len(subCommandService(service)) + 1 + Len(subCommandServer(server))
    IN  SubSeq(cmdOp.out, n + 1, Len(cmdOp.out))

\* C21 as claimed: a server command ends with ' -w N' if and only if it is an
\* add-server or edit-server command and the server's weight N is there and
\* positive; with no weight, weight 0 or a negative weight, and on every
\* remove-server command, nothing follows the server part.
C21_WeightSuffix ==
    cmdOp.cmd \in ServerCommands =>
        LET weight == CmdServerStub(cmdOp.server).weight
            suffix == AfterServer(cmdOp.cmd, cmdOp.service, CmdServerStub(cmdOp.server))
        IN  IF cmdOp.cmd # "commandRemoveServer" /\ weight # <<>> /\ weight[1] > 0
            THEN /\ SubSeq(suffix, 1, 4) = <<" ", "-", "w", " ">>
                 /\ ParseDec(SubSeq(suffix, 5, Len(suffix))) = weight[1]
            ELSE suffix = <<>>


\* C22 as claimed: for two prefixes a, b of one family, however many bytes
\* they store, exactly one of a < b, a == b, a > b holds, a == b holds iff
\* the lengths and the zero-padded bytes are equal, a < b compares the padded
\* bytes first and the length second, and < is transitive.
C22_StrictTotalOrder ==
    ipOp.op = "compare" =>
        LET a == ipOp.a
            b == ipOp.b
            rel == ipOp.rel
            padded_lt == \/ StrLt(packed(a, TRUE), packed(b, TRUE))
                         \/ /\ packed(a, TRUE) = packed(b, TRUE)
                            /\ a.prefixlen < b.prefixlen
        IN  /\ (rel.lt /\ ~rel.eq /\ ~rel.gt) \/ (~rel.lt /\ rel.eq /\ ~rel.gt)
               \/ (~rel.lt /\ ~rel.eq /\ rel.gt)
            /\ rel.eq <=> (a.prefixlen = b.prefixlen /\ packed(a, TRUE) = packed(b, TRUE))
            /\ rel.lt <=> padded_lt
            /\ rel.lt /\ rel.bc_lt => rel.ac_lt

\* C23 as claimed: a text the constructor accepts gives a prefix whose padded
\* packed form has the full width of its family, 16 bytes for IPv6 (the '::'
\* expansion makes 8 groups) and 4 bytes for IPv4.
C23_FullWidth ==
    ipOp.op = "text" /\ ipOp.raised = "" =>
        Len(packed(ipOp.a, TRUE)) = packedMaxLen(ipOp.a)

\* C24 as claimed: the constructor raises a format error for a tuple with
\* more octets than the full width of the family or with a length outside
\* 0..fullWidth*8.
C24_TupleValidated ==
    LET fullWidth == IF ipOp.family = AFI_INET6 THEN 16 ELSE 4
    IN  /\ ipOp.op = "tuple"
        /\ ipOp.family \in {AFI_INET, AFI_INET6}
        /\ Len(ipOp.octets) > fullWidth \/ ipOp.length \notin 0..(fullWidth * 8)
        => ipOp.raised = "ValueError"

Min(a, b) == IF a <= b THEN a ELSE b

\* C25 as claimed: when the commands of one assignServers(D) call are applied
\* one by one to a table that holds the servers of I, the table holds at least
\* min(|I|, |D|) servers after every command.  I and D are sets the table can
\* hold: no two servers of I, and no two of D, have one address.
C25_NoCapacityDip ==
    (lastOp.op = "assignServers"
        /\ Cardinality(Table(lastOp.pre)) = Cardinality(lastOp.pre)
        /\ Cardinality(Table(lastOp.new)) = Cardinality(lastOp.new)) =>
        \A k \in 0..Len(cmdList) :
            Cardinality(ApplyBatch(Table(lastOp.pre), SubSeq(cmdList, 1, k)))
                >= Min(Cardinality(lastOp.pre), Cardinality(lastOp.new))

\* C26 as claimed: self.servers changes only inside assignServers, addServer
\* and removeServer of the service: a caller changing a set it passed to
\* assignServers earlier does not change it, and addServer and removeServer
\* do not change a set object the caller holds.
C26_OnlyOwnOperations ==
    [][/\ lastOp'.op = "caller" => installedServers' = installedServers
       /\ lastOp'.op \in {"addServer", "removeServer"} => heap'.caller = heap.caller
      ]_vars

\* C27 as claimed: server.pooled is written only by addServer and removeServer,
\* and only after the command has been handed to modifyState; __init__ (with
\* createService) and assignServers leave every pooled flag as it was.
C27_PooledAfterCommand ==
    [][LET events == lastOp'.events
       IN  /\ (pooled' # pooled \/ \E i \in DOMAIN events : events[i] = "pooled")
                  => lastOp'.op \in {"addServer", "removeServer"}
           /\ lastOp'.op \in {"init", "assignServers"} => pooled' = pooled
           /\ \A i \in DOMAIN events :
                  events[i] = "pooled" =>
                      \E j \in 1..(i - 1) : events[j] = "modifyState"
      ]_vars

\* C30: on a service that starts with no server installed and every server
\* un-pooled, and on which only addServer and removeServer are called
\* (removeServer raising KeyError and addServer of an installed server
\* included), server.pooled is true exactly of the servers in self.servers.
C30_PooledIffInstalled ==
    svc # NoService =>
        \A server \in Servers : pooled[server] <=> server \in installedServers

\* server 3 is installed and pooled, and the removal of server 2, never
\* installed, has just raised KeyError
C30_Witness ==
    /\ lastOp.op = "removeServer"
    /\ lastOp.raised = "KeyError"
    /\ lastOp.server = 2
    /\ installedServers = {3}
    /\ pooled[3] /\ ~pooled[1] /\ ~pooled[2]

\* C28: in every state self.up is None exactly when self.firstCheck is still
\* true; run() and stop() leave self.up and self.firstCheck as they are, only
\* _resultUp and _resultDown write self.up, and once True or False it never
\* returns to None.
C28_UnknownIffNoCheck ==
    /\ [](up = "None" <=> firstCheck)
    /\ [][/\ monOp'.op \in {"run", "stop"} => UNCHANGED <<up, firstCheck>>
          /\ up' # up => monOp'.op \in {"resultUp", "resultDown"}
          /\ up # "None" => up' # "None"
         ]_vars

\* run() has returned on an instance that had results of both kinds and whose
\* verdict is Down: the verdict and firstCheck are as the results left them
C28_Witness ==
    /\ monOp.op = "run"
    /\ monOp.raised = ""
    /\ up = "False"
    /\ ~firstCheck
    /\ calls.down >= 1 /\ calls.up >= 1

NotifiedOf(kind) == Cardinality({i \in DOMAIN notified : notified[i].kind = kind})

\* C29: on an instance that has a coordinator, the calls the coordinator
\* receives alternate between resultUp and resultDown, the last of them is the
\* current verdict and the value of the status gauge (no call yet: no verdict
\* yet), and the coordinator has received as many resultUp / resultDown calls
\* as up_transitions_total / down_transitions_total count.
C29_NotificationsAlternate ==
    coordinator =>
        /\ \A i \in 1..(Len(notified) - 1) : notified[i].kind # notified[i + 1].kind
        /\ IF notified = <<>>
           THEN up = "None" /\ metrics.status = <<>>
           ELSE LET last == notified[Len(notified)].kind
                IN  /\ up = (IF last = "up" THEN "True" ELSE "False")
                    /\ metrics.status = (IF last = "up" THEN <<1>> ELSE <<0>>)
        /\ NotifiedOf("up") = metrics.up_transitions_total
        /\ NotifiedOf("down") = metrics.down_transitions_total

\* the coordinator was told down, up, down, and one more result call was made
\* that told it nothing
C29_Witness ==
    /\ coordinator
    /\ Len(notified) = 3
    /\ notified[1].kind = "down" /\ notified[2].kind = "up" /\ notified[3].kind = "down"
    /\ nResultCalls = 4
    /\ up = "False"

\* C31 as claimed: when the executor takes every batch, in order, on a table
\* that starts empty, then after every call of assignServers, addServer and
\* removeServer the servers in the table are those of self.servers, and no
\* add command is emitted for a server the table holds, no edit or remove
\* command for a server it does not hold.
C31_TableRefinement ==
    /\ [](svc # NoService => forwardingTable = Table(installedServers))
    /\ [][lastOp'.op \in {"assignServers", "addServer", "removeServer"}
              /\ nCalls' # nCalls =>
              \A k \in 1..Len(cmdList') :
                  LET before == ApplyBatch(forwardingTable, SubSeq(cmdList', 1, k - 1))
                      cmd == cmdList'[k]
                  IN  IF Kind(cmd) = "a"
                      THEN Address(cmd) \notin before
                      ELSE Address(cmd) \in before
         ]_vars

====
